---- MODULE Spec2Model ----
(***************************************************************************)
(* State-machine model of megatron/core/transformer/mlp.py: the MLP block  *)
(* (input projection -> nonlinearity -> output projection) with its two    *)
(* activation-recompute gates.                                             *)
(*                                                                         *)
(* Tensors are modelled along their last dimension only, as sequences of   *)
(* integers (one worker, tensor-parallel size 1); the sequence and batch   *)
(* dimensions are independent copies of the same computation.  Python      *)
(* values are tagged records so that a tensor, a tuple of tensors and None *)
(* stay distinguishable, as isinstance() distinguishes them.               *)
(***************************************************************************)
EXTENDS Integers, Sequences, FiniteSets, TLC

\* ------------------------------------------------------------------ bounds
MaxHidden == 2   \* hidden_size ranges over 1..MaxHidden
MaxFfn    == 2   \* ffn_hidden_size ranges over 1..MaxFfn
MaxVal    == 1   \* entries of hidden_states range over -1..MaxVal

\* ----------------------------------------------------------- Python values
None       == [type |-> "None"]
Tensor(v)  == [type |-> "tensor", v |-> v]
Tuple(s)   == [type |-> "tuple", items |-> s]
Raised(kind, at) == [type |-> "error", kind |-> kind, at |-> at]
Unset      == [type |-> "unset"]

IsError(r) == r.type = "error"
Width(t)   == Len(t.v)

RECURSIVE SumTo(_, _)
SumTo(g, n) == IF n = 0 THEN 0 ELSE g[n] + SumTo(g, n - 1)

\* ------------------------------------------------- activation functions
\* config.activation_func is a caller-supplied elementwise callable.  "gelu"
\* stands for torch.nn.functional.gelu (the identity the fused-kernel
\* assertion compares against); its values are an integer surrogate that
\* keeps gelu's shape (identity on x >= 0, a dip just below 0, 0 far below).
ActivationFuncs == {"gelu", "relu", "squared_relu"}
F_gelu == [kind |-> "plain", fn |-> "gelu"]

Act(fn, x) ==
  CASE fn = "relu"         -> IF x > 0 THEN x ELSE 0
    [] fn = "squared_relu" -> IF x > 0 THEN x * x ELSE 0
    [] fn = "gelu"         -> IF x >= 0 THEN x ELSE IF x = -1 THEN -1 ELSE 0

Elementwise(fn, t) == Tensor([i \in 1..Width(t) |-> Act(fn, t.v[i])])

\* tensor + tensor (equal widths; the bias has the width of the projection)
Add(a, b) ==
  IF a.type # "tensor" \/ b.type # "tensor" THEN Raised("TypeError", "add")
  ELSE IF Width(a) # Width(b) THEN Raised("RuntimeError", "add")
  ELSE Tensor([i \in 1..Width(a) |-> a.v[i] + b.v[i]])

\* tensor * tensor with torch broadcasting along the last dimension
Mul(a, b) ==
  IF Width(a) = Width(b) THEN Tensor([i \in 1..Width(a) |-> a.v[i] * b.v[i]])
  ELSE IF Width(b) = 1 THEN Tensor([i \in 1..Width(a) |-> a.v[i] * b.v[1]])
  ELSE IF Width(a) = 1 THEN Tensor([i \in 1..Width(b) |-> a.v[1] * b.v[i]])
  ELSE Raised("RuntimeError", "mul")

\* torch.chunk(x, 2, dim=-1): chunks of size ceil(w/2), as many as needed
chunk(t) ==
  LET w  == Width(t)
      sz == (w + 1) \div 2
  IN  IF w <= 1 THEN << t >>
      ELSE << Tensor(SubSeq(t.v, 1, sz)), Tensor(SubSeq(t.v, sz + 1, w)) >>

\* line 50-52: the gating closure bound at construction
glu(fn, x) ==
  LET c == chunk(x)
  IN  IF Len(c) < 2 THEN Raised("IndexError", "glu")
      ELSE Mul(Elementwise(fn, c[1]), c[2])

\* self.activation_func(x): dispatch on the callable bound at line 53 / 55
CallActivation(af, x) ==
  IF af.kind = "glu" THEN glu(af.fn, x) ELSE Elementwise(af.fn, x)

\* ---------------------------------------------- collaborators (primitives)
\* Parallel linear layer with skip_bias_add=True: forward(x) -> (W x, bias or
\* None).  Weights and bias are a fixed integer pattern per layer.
WeightAt(tag, i, j) == ((tag + i + 2 * j) % 3) - 1
BiasAt(tag, i)      == ((tag + i) % 2) + 1

TELinear(tag, input_size, output_size, bias) ==
  [tag |-> tag, input_size |-> input_size, output_size |-> output_size, bias |-> bias]

LinearForward(layer, x) ==
  IF Width(x) # layer.input_size THEN Raised("RuntimeError", "linear")
  ELSE Tuple(<< Tensor([i \in 1..layer.output_size |->
                   SumTo([j \in 1..layer.input_size |->
                            WeightAt(layer.tag, i, j) * x.v[j]], layer.input_size)]),
                IF layer.bias
                  THEN Tensor([i \in 1..layer.output_size |-> BiasAt(layer.tag, i)])
                  ELSE None >>)

\* Fused bias+gelu kernel: gelu(bias + y)
bias_gelu_impl(y, bias) ==
  LET s == Add(y, bias) IN IF IsError(s) THEN s ELSE Elementwise("gelu", s)

\* tensor_parallel.checkpoint(function, False, *args): in the pass that calls
\* it, its value is what the function returned, with the function's arity
checkpoint(results) == results

\* ----------------------------------------------------------- configuration
Granularities == {"None", "selective", "full", "selective_mlp_only", "selective_both"}

Configs ==
  [hidden_size : 1..MaxHidden,
   ffn_hidden_size : 1..MaxFfn,
   gated_linear_unit : BOOLEAN,
   add_bias_linear : BOOLEAN,
   activation_func : ActivationFuncs,
   bias_gelu_fusion : BOOLEAN,
   recompute_granularity : Granularities,
   recompute_non_linear_layer_in_mlp : BOOLEAN]

Inputs(h) == { Tensor(v) : v \in [1..h -> (-1)..MaxVal] }

\* ------------------------------------------------------------ MLP.__init__
\* mutant: the gated unit's input projection is not doubled
Fc1OutputWidthNotDoubled(config) == config.ffn_hidden_size

Fc1OutputWidth(config) ==
  IF config.gated_linear_unit THEN config.ffn_hidden_size * 2
  ELSE config.ffn_hidden_size

SelectActivation(config) ==
  IF config.gated_linear_unit THEN [kind |-> "glu", fn |-> config.activation_func]
  ELSE [kind |-> "plain", fn |-> config.activation_func]

\* mutant: construction turns the full-MLP gate off when the non-linear gate
\* is configured
CheckpointMlpExclusive(config) ==
  /\ config.recompute_granularity \in {"selective_mlp_only", "selective_both"}
  /\ ~config.recompute_non_linear_layer_in_mlp

CheckpointMlp(config) ==
  config.recompute_granularity \in {"selective_mlp_only", "selective_both"}

RecomputeNonLinear(config) == config.recompute_non_linear_layer_in_mlp

MLP(config) ==
  [config |-> config,
   linear_fc1 |-> TELinear(1, config.hidden_size, Fc1OutputWidth(config),
                           config.add_bias_linear),
   activation_func |-> SelectActivation(config),
   linear_fc2 |-> TELinear(2, config.ffn_hidden_size, config.hidden_size,
                           config.add_bias_linear),
   checkpoint_mlp |-> CheckpointMlp(config),
   recompute_non_linear_layer_in_mlp |-> RecomputeNonLinear(config)]

\* ------------------------------------------- MLP._forward._apply_non_linear
\* mutant: the deferred bias is added after the activation
ApplyUnfusedBiasAfter(af, intermediate_parallel, bias_parallel) ==
  LET y == CallActivation(af, intermediate_parallel)
  IN  IF IsError(y) \/ bias_parallel = None THEN y ELSE Add(y, bias_parallel)

ApplyUnfused(af, intermediate_parallel, bias_parallel) ==
  LET x == IF bias_parallel # None
             THEN Add(intermediate_parallel, bias_parallel)
             ELSE intermediate_parallel
  IN  IF IsError(x) THEN x ELSE CallActivation(af, x)

\* mutant: the fused path runs without checking its precondition
apply_non_linearUnchecked(slf, intermediate_parallel, bias_parallel) ==
  IF slf.config.bias_gelu_fusion
    THEN bias_gelu_impl(intermediate_parallel, bias_parallel)
    ELSE ApplyUnfused(slf.activation_func, intermediate_parallel, bias_parallel)

\* mutant: the precondition compares the configured activation function
apply_non_linearChecksConfigured(slf, intermediate_parallel, bias_parallel) ==
  IF slf.config.bias_gelu_fusion
    THEN IF slf.config.add_bias_linear # TRUE THEN Raised("AssertionError", "line78")
         ELSE IF slf.config.activation_func # "gelu"
           THEN Raised("AssertionError", "line79")
         ELSE bias_gelu_impl(intermediate_parallel, bias_parallel)
    ELSE ApplyUnfused(slf.activation_func, intermediate_parallel, bias_parallel)

apply_non_linear(slf, intermediate_parallel, bias_parallel) ==
  IF slf.config.bias_gelu_fusion
    THEN IF slf.config.add_bias_linear # TRUE THEN Raised("AssertionError", "line78")
         ELSE IF slf.activation_func # F_gelu THEN Raised("AssertionError", "line79")
         ELSE bias_gelu_impl(intermediate_parallel, bias_parallel)
    ELSE ApplyUnfused(slf.activation_func, intermediate_parallel, bias_parallel)

NonLinearVia(slf) == IF slf.config.bias_gelu_fusion THEN "fused" ELSE "unfused"

\* =================================================================== state
VARIABLES
  self,     \* the constructed MLP instance (fields of MLP.__init__)
  pc,       \* position of the current call: "idle", "forward", "fc1",
            \* "non_linear", "fc2", "return", "done", "raised", "backward",
            \* "cycle_done"
  mode,     \* [pass, grad, within]: which pass is executing, whether autograd
            \* records the executed stages, and the recompute wrappers entered
  locals,   \* local variables of forward / _forward
  ret,      \* what the caller of forward received (a value or a raised error)
  log,      \* stages executed since the call started, in order
  tape      \* autograd graph of the call: nodes still to be back-propagated

vars == << self, pc, mode, locals, ret, log, tape >>

NoLocals ==
  [hidden_states |-> Unset, intermediate_parallel |-> Unset,
   bias_parallel |-> Unset, output |-> Unset, output_bias |-> Unset]

Event(stage, via, within, in, out) ==
  [pass |-> mode.pass, stage |-> stage, via |-> via, within |-> within,
   in |-> in, out |-> out]

Node(op, within, saved) == [op |-> op, within |-> within, saved |-> saved]

Record(node) == IF mode.grad THEN Append(tape, node) ELSE tape

Init ==
  /\ \E config \in Configs : self = MLP(config)
  /\ pc = "idle"
  /\ mode = [pass |-> "forward", grad |-> TRUE, within |-> << >>]
  /\ locals = NoLocals
  /\ ret = Unset
  /\ log = << >>
  /\ tape = << >>

\* ------------------------------------------------------------- MLP.forward
\* The caller invokes forward(hidden_states) on an instance that is not in
\* the middle of a call.
Call ==
  /\ pc = "idle"
  /\ \E x \in Inputs(self.config.hidden_size) :
        locals' = [NoLocals EXCEPT !.hidden_states = x]
  /\ mode' = [pass |-> "forward", grad |-> TRUE, within |-> << >>]
  /\ ret' = Unset
  /\ log' = << >>
  /\ tape' = << >>
  /\ pc' = "forward"
  /\ UNCHANGED self

\* line 97: with checkpoint_mlp, _forward runs inside the recompute wrapper
\* (no autograd recording in the forward pass); otherwise it runs directly.
ForwardDispatch ==
  /\ pc = "forward"
  /\ mode' = IF self.checkpoint_mlp
               THEN [mode EXCEPT !.grad = FALSE, !.within = << "checkpoint_mlp" >>]
               ELSE mode
  /\ pc' = "fc1"
  /\ UNCHANGED << self, locals, ret, log, tape >>

\* ------------------------------------------------------------ MLP._forward
\* line 72
InputProjection ==
  /\ pc = "fc1"
  /\ LET r == LinearForward(self.linear_fc1, locals.hidden_states)
     IN  IF IsError(r)
           THEN /\ pc' = "raised"
                /\ ret' = r
                /\ UNCHANGED << locals, log, tape >>
           ELSE /\ locals' = [locals EXCEPT !.intermediate_parallel = r.items[1],
                                            !.bias_parallel = r.items[2]]
                /\ log' = Append(log, Event("fc1", "linear", mode.within,
                                            locals.hidden_states, r))
                /\ tape' = Record(Node("fc1", mode.within, Tuple(<< >>)))
                /\ pc' = "non_linear"
                /\ UNCHANGED ret
  /\ UNCHANGED << self, mode >>

\* lines 76-90
NonLinearWithin(slf) ==
  IF slf.recompute_non_linear_layer_in_mlp
    THEN Append(mode.within, "checkpoint_non_linear")
    ELSE mode.within

NonLinearResult(slf, intermediate_parallel, bias_parallel) ==
  IF slf.recompute_non_linear_layer_in_mlp
    THEN checkpoint(apply_non_linear(slf, intermediate_parallel, bias_parallel))
    ELSE apply_non_linear(slf, intermediate_parallel, bias_parallel)

\* mutant: the nonlinearity is never wrapped for recomputation
NonLinearNodeNotWrapped(slf, intermediate_parallel, bias_parallel) ==
  Node("non_linear", mode.within, Tuple(<< >>))

NonLinearNode(slf, intermediate_parallel, bias_parallel) ==
  IF slf.recompute_non_linear_layer_in_mlp
    THEN Node("checkpoint_non_linear", NonLinearWithin(slf),
              Tuple(<< intermediate_parallel, bias_parallel >>))
    ELSE Node("non_linear", NonLinearWithin(slf), Tuple(<< >>))

\* mutant: the activated tensor is not assigned back to intermediate_parallel
NonLinearityDropsResult ==
  /\ pc = "non_linear"
  /\ LET r == NonLinearResult(self, locals.intermediate_parallel, locals.bias_parallel)
     IN  IF IsError(r)
           THEN /\ pc' = "raised"
                /\ ret' = r
                /\ UNCHANGED << locals, log, tape >>
           ELSE /\ log' = Append(log,
                     Event("non_linear", NonLinearVia(self), NonLinearWithin(self),
                           Tuple(<< locals.intermediate_parallel, locals.bias_parallel >>),
                           r))
                /\ tape' = Record(NonLinearNode(self, locals.intermediate_parallel,
                                                locals.bias_parallel))
                /\ pc' = "fc2"
                /\ UNCHANGED << locals, ret >>
  /\ UNCHANGED << self, mode >>

NonLinearity ==
  /\ pc = "non_linear"
  /\ LET r == NonLinearResult(self, locals.intermediate_parallel, locals.bias_parallel)
     IN  IF IsError(r)
           THEN /\ pc' = "raised"
                /\ ret' = r
                /\ UNCHANGED << locals, log, tape >>
           ELSE /\ locals' = [locals EXCEPT !.intermediate_parallel = r]
                /\ log' = Append(log,
                     Event("non_linear", NonLinearVia(self), NonLinearWithin(self),
                           Tuple(<< locals.intermediate_parallel, locals.bias_parallel >>),
                           r))
                /\ tape' = Record(NonLinearNode(self, locals.intermediate_parallel,
                                                locals.bias_parallel))
                /\ pc' = "fc2"
                /\ UNCHANGED ret
  /\ UNCHANGED << self, mode >>

\* line 93
OutputProjection ==
  /\ pc = "fc2"
  /\ LET r == LinearForward(self.linear_fc2, locals.intermediate_parallel)
     IN  IF IsError(r)
           THEN /\ pc' = "raised"
                /\ ret' = r
                /\ UNCHANGED << locals, log, tape >>
           ELSE /\ locals' = [locals EXCEPT !.output = r.items[1],
                                            !.output_bias = r.items[2]]
                /\ log' = Append(log, Event("fc2", "linear", mode.within,
                                            locals.intermediate_parallel, r))
                /\ tape' = Record(Node("fc2", mode.within, Tuple(<< >>)))
                /\ pc' = "return"
                /\ UNCHANGED ret
  /\ UNCHANGED << self, mode >>

\* mutant: _custom_function always returns the output alone
custom_functionDropsBias(output, output_bias) == output

\* lines 100-104: _custom_function returns one result when the bias is None
custom_function(output, output_bias) ==
  IF output_bias # None THEN Tuple(<< output, output_bias >>) ELSE output

\* mutant: the wrapper's results are returned as they come
NormalizeKeepsArity(results) == results

\* lines 106-109
Normalize(results) ==
  IF results.type = "tuple" /\ Len(results.items) = 2
    THEN results
    ELSE Tuple(<< results, None >>)

\* lines 97-111: what forward hands to its caller once _forward has returned
ForwardResult(slf, output, output_bias) ==
  IF slf.checkpoint_mlp
    THEN Normalize(checkpoint(custom_function(output, output_bias)))
    ELSE Tuple(<< output, output_bias >>)

\* mutant: returning through the wrapper switches the gate off on the instance
ForwardReturnClearsGate ==
  /\ pc = "return"
  /\ mode.pass = "forward"
  /\ ret' = ForwardResult(self, locals.output, locals.output_bias)
  /\ tape' = IF self.checkpoint_mlp
               THEN Append(tape, Node("checkpoint_mlp", << "checkpoint_mlp" >>,
                                      Tuple(<< locals.hidden_states >>)))
               ELSE tape
  /\ mode' = [mode EXCEPT !.grad = TRUE, !.within = << >>]
  /\ pc' = "done"
  /\ self' = [self EXCEPT !.checkpoint_mlp = FALSE]
  /\ UNCHANGED << locals, log >>

\* line 94 and lines 105-111, in the forward pass
ForwardReturn ==
  /\ pc = "return"
  /\ mode.pass = "forward"
  /\ ret' = ForwardResult(self, locals.output, locals.output_bias)
  /\ tape' = IF self.checkpoint_mlp
               THEN Append(tape, Node("checkpoint_mlp", << "checkpoint_mlp" >>,
                                      Tuple(<< locals.hidden_states >>)))
               ELSE tape
  /\ mode' = [mode EXCEPT !.grad = TRUE, !.within = << >>]
  /\ pc' = "done"
  /\ UNCHANGED << self, locals, log >>

\* ----------------------------------------------------------- backward pass
\* The caller back-propagates through the result of a completed forward call.
\* Nodes are processed last-recorded first.  A recompute wrapper's node
\* re-executes the wrapped function on its saved inputs with autograd enabled
\* and then back-propagates through the stages that re-execution recorded.
Last(s)  == s[Len(s)]
Front(s) == SubSeq(s, 1, Len(s) - 1)

BackwardStart ==
  /\ pc = "done"
  /\ mode' = [mode EXCEPT !.pass = "backward"]
  /\ pc' = "backward"
  /\ UNCHANGED << self, locals, ret, log, tape >>

\* an ordinary stage: its gradient is computed from what the stage retained
BackwardStage ==
  /\ pc = "backward"
  /\ tape # << >>
  /\ Last(tape).op \in {"fc1", "non_linear", "fc2"}
  /\ tape' = Front(tape)
  /\ UNCHANGED << self, pc, mode, locals, ret, log >>

\* the wrapper of line 88: _apply_non_linear is re-executed
BackwardCheckpointNonLinear ==
  /\ pc = "backward"
  /\ tape # << >>
  /\ Last(tape).op = "checkpoint_non_linear"
  /\ LET n == Last(tape)
         r == apply_non_linear(self, n.saved.items[1], n.saved.items[2])
     IN  /\ log' = Append(log, Event("non_linear", NonLinearVia(self), n.within,
                                     n.saved, r))
         /\ tape' = Append(Front(tape), Node("non_linear", n.within, Tuple(<< >>)))
  /\ UNCHANGED << self, pc, mode, locals, ret >>

\* the wrapper of line 105: _custom_function, hence _forward, is re-executed
BackwardCheckpointMlp ==
  /\ pc = "backward"
  /\ tape # << >>
  /\ Last(tape).op = "checkpoint_mlp"
  /\ tape' = Front(tape)
  /\ locals' = [NoLocals EXCEPT !.hidden_states = Last(tape).saved.items[1]]
  /\ mode' = [pass |-> "backward", grad |-> TRUE, within |-> Last(tape).within]
  /\ pc' = "fc1"
  /\ UNCHANGED << self, ret, log >>

\* line 94 / 100-104 during re-execution: the results feed back-propagation
RecomputeReturn ==
  /\ pc = "return"
  /\ mode.pass = "backward"
  /\ mode' = [mode EXCEPT !.within = << >>]
  /\ pc' = "backward"
  /\ UNCHANGED << self, locals, ret, log, tape >>

BackwardDone ==
  /\ pc = "backward"
  /\ tape = << >>
  /\ pc' = "cycle_done"
  /\ UNCHANGED << self, mode, locals, ret, log, tape >>

\* The caller is finished with a call (its result, its error, or its
\* forward/backward cycle); the instance is ready for the next call.
Finish ==
  /\ pc \in {"done", "raised", "cycle_done"}
  /\ pc' = "idle"
  /\ mode' = [pass |-> "forward", grad |-> TRUE, within |-> << >>]
  /\ locals' = NoLocals
  /\ ret' = Unset
  /\ log' = << >>
  /\ tape' = << >>
  /\ UNCHANGED self

Next ==
  \/ Call
  \/ ForwardDispatch
  \/ InputProjection
  \/ NonLinearity
  \/ OutputProjection
  \/ ForwardReturn
  \/ BackwardStart
  \/ BackwardStage
  \/ BackwardCheckpointNonLinear
  \/ BackwardCheckpointMlp
  \/ RecomputeReturn
  \/ BackwardDone
  \/ Finish

Spec == Init /\ [][Next]_vars

\* ============================================================== properties
ForwardCompleted == pc = "done" \/ mode.pass = "backward"

Stages(s) == [i \in 1..Len(s) |-> s[i].stage]
InPass(s, p) == SelectSeq(s, LAMBDA e : e.pass = p)
ForwardStages  == Stages(InPass(log, "forward"))
BackwardStages == Stages(InPass(log, "backward"))

IsPrefix(s, t) == Len(s) <= Len(t) /\ SubSeq(t, 1, Len(s)) = s

\* C1: whenever forward has completed, its caller holds a two-element pair
\* (output, bias) whose first element is a tensor and whose second element is
\* a tensor when add_bias_linear is true and None when it is false; a bare
\* single result is never what the caller holds.
C1_ReturnsPair ==
  ForwardCompleted =>
    /\ ret.type = "tuple"
    /\ Len(ret.items) = 2
    /\ ret.items[1].type = "tensor"
    /\ ret.items[2].type \in {"tensor", "None"}
    /\ (ret.items[2].type = "tensor") <=> (self.config.add_bias_linear = TRUE)
    /\ (ret.items[2] = None) <=> (self.config.add_bias_linear = FALSE)

C1_Witness ==
  /\ pc = "done"
  /\ self.checkpoint_mlp
  /\ ~self.config.add_bias_linear
  /\ ret = Tuple(<< locals.output, None >>)

\* C2: fc1 is built h -> 2f when gated and h -> f otherwise, fc2 is built
\* f -> h; every nonlinearity output has width f, which is the width fc2
\* consumes; every fc2 output, and the returned output, has the width h of the
\* input; no call ends in a shape error.
C2_Widths ==
  LET h == self.config.hidden_size
      f == self.config.ffn_hidden_size
  IN  /\ self.linear_fc1.input_size = h
      /\ self.linear_fc1.output_size = (IF self.config.gated_linear_unit THEN 2 * f ELSE f)
      /\ self.linear_fc2.input_size = f
      /\ self.linear_fc2.output_size = h
      /\ \A i \in 1..Len(log) :
           LET e == log[i]
           IN  /\ e.stage = "fc1" =>
                    /\ Width(e.in) = h
                    /\ Width(e.out.items[1]) = self.linear_fc1.output_size
               /\ e.stage = "non_linear" =>
                    /\ Width(e.in.items[1]) = self.linear_fc1.output_size
                    /\ Width(e.out) = f
                    /\ Width(e.out) = self.linear_fc2.input_size
               /\ e.stage = "fc2" =>
                    /\ Width(e.in) = f
                    /\ Width(e.out.items[1]) = h
      /\ ForwardCompleted => Width(ret.items[1]) = h
      /\ pc = "raised" => ret.kind = "AssertionError"

C2_Witness ==
  /\ pc = "done"
  /\ self.config.gated_linear_unit
  /\ self.config.ffn_hidden_size = 2
  /\ self.config.hidden_size = 1
  /\ Width(log[2].in.items[1]) = 4
  /\ Width(log[2].out) = 2
  /\ Width(ret.items[1]) = 1

\* the non-recompute path: lines 72, 90, 93-94 run directly (line 111)
NoRecompute(config) ==
  [config EXCEPT !.recompute_granularity = "None",
                 !.recompute_non_linear_layer_in_mlp = FALSE]

PlainPath(slf, hidden_states) ==
  LET p == LinearForward(slf.linear_fc1, hidden_states)
      a == apply_non_linear(slf, p.items[1], p.items[2])
  IN  IF IsError(a) THEN a ELSE LinearForward(slf.linear_fc2, a)

\* C3: the outcome of a forward call (the returned pair, or the error) is the
\* outcome of the non-recompute path, _forward run directly with both gates
\* off, on the same input, weights and remaining configuration.
C3_RecomputeTransparent ==
  (pc \in {"done", "raised"} /\ mode.pass = "forward") =>
     ret = PlainPath(MLP(NoRecompute(self.config)), locals.hidden_states)

C3_Witness ==
  /\ pc = "done"
  /\ self.checkpoint_mlp
  /\ self.recompute_non_linear_layer_in_mlp
  /\ ~self.config.add_bias_linear
  /\ ret.items[2] = None
  /\ ret = PlainPath(MLP(NoRecompute(self.config)), locals.hidden_states)

\* a configuration the fused kernel does not support
BadFusedConfig(config) ==
  /\ config.bias_gelu_fusion
  /\ (~config.add_bias_linear \/ config.activation_func # "gelu")

\* C4: with bias_gelu_fusion on and (add_bias_linear off or the configured
\* activation not gelu) a call never gets past the nonlinearity: it ends in an
\* AssertionError, with neither the fused kernel nor fc2 executed and nothing
\* returned.  Conversely the fused kernel only ever runs with biases enabled
\* and gelu as the instance's activation function.
C4_FusedPrecondition ==
  /\ BadFusedConfig(self.config) =>
       /\ pc \in {"idle", "forward", "fc1", "non_linear", "raised"}
       /\ pc = "raised" => (ret.type = "error" /\ ret.kind = "AssertionError")
       /\ pc # "raised" => ret = Unset
       /\ \A i \in 1..Len(log) : log[i].via # "fused" /\ log[i].stage # "fc2"
  /\ \A i \in 1..Len(log) :
       log[i].via = "fused" =>
         /\ self.config.add_bias_linear = TRUE
         /\ self.activation_func = F_gelu
         /\ self.config.activation_func = "gelu"

C4_Witness ==
  /\ pc = "raised"
  /\ BadFusedConfig(self.config)
  /\ ret.kind = "AssertionError"
  /\ Stages(log) = << "fc1" >>

C4_WitnessFused ==
  /\ pc = "done"
  /\ log[2].via = "fused"

\* C5 as stated: the two recompute gates are never both true in a constructed
\* MLP, and no nonlinearity runs inside both recompute wrappers.
C5_GatesExclusive ==
  /\ ~(self.checkpoint_mlp /\ self.recompute_non_linear_layer_in_mlp)
  /\ \A i \in 1..Len(log) :
       log[i].within # << "checkpoint_mlp", "checkpoint_non_linear" >>

\* the configuration asks for both recompute gates
BothConfigured(config) ==
  /\ config.recompute_granularity \in {"selective_mlp_only", "selective_both"}
  /\ config.recompute_non_linear_layer_in_mlp

\* C5 amended: the gates are set independently at construction; they are both
\* true exactly when recompute_granularity is selective_mlp_only or
\* selective_both and recompute_non_linear_layer_in_mlp is configured, and the
\* nonlinearity of a call runs inside exactly the wrappers whose gates are
\* true: nested in both exactly when both are configured.
C5_GatesIndependent ==
  /\ (self.checkpoint_mlp /\ self.recompute_non_linear_layer_in_mlp)
        <=> BothConfigured(self.config)
  /\ self.recompute_non_linear_layer_in_mlp
        = self.config.recompute_non_linear_layer_in_mlp
  /\ \A i \in 1..Len(log) :
       log[i].stage = "non_linear" =>
         /\ (log[i].within = << "checkpoint_mlp", "checkpoint_non_linear" >>)
               <=> BothConfigured(self.config)
         /\ (log[i].within = << >>) <=>
               (/\ self.config.recompute_granularity
                     \notin {"selective_mlp_only", "selective_both"}
                /\ ~self.config.recompute_non_linear_layer_in_mlp)

C5_Witness ==
  /\ pc = "done"
  /\ BothConfigured(self.config)
  /\ self.checkpoint_mlp
  /\ self.recompute_non_linear_layer_in_mlp
  /\ log[2].stage = "non_linear"
  /\ log[2].within = << "checkpoint_mlp", "checkpoint_non_linear" >>

\* C6 as stated: after a forward/backward cycle, the stages re-executed in the
\* backward pass are the nonlinearity alone with the non-linear gate, fc1,
\* nonlinearity, fc2 in that order with the full-MLP gate, and none with no
\* gate.
C6_RecomputedRegion ==
  pc = "cycle_done" =>
    /\ self.recompute_non_linear_layer_in_mlp =>
         BackwardStages = << "non_linear" >>
    /\ self.checkpoint_mlp =>
         BackwardStages = << "fc1", "non_linear", "fc2" >>
    /\ (~self.recompute_non_linear_layer_in_mlp /\ ~self.checkpoint_mlp) =>
         BackwardStages = << >>

\* stages re-executed in the backward pass, by gates
ExpectedBackward(slf) ==
  CASE slf.checkpoint_mlp /\ slf.recompute_non_linear_layer_in_mlp
         -> << "fc1", "non_linear", "fc2", "non_linear" >>
    [] slf.checkpoint_mlp /\ ~slf.recompute_non_linear_layer_in_mlp
         -> << "fc1", "non_linear", "fc2" >>
    [] ~slf.checkpoint_mlp /\ slf.recompute_non_linear_layer_in_mlp
         -> << "non_linear" >>
    [] OTHER -> << >>

\* C6 amended: as stated when at most one gate is true; when both are true the
\* backward pass re-executes fc1, nonlinearity, fc2 and then the nonlinearity
\* once more (the nested wrapper's own re-execution).  In every case the
\* forward pass ran fc1, nonlinearity, fc2 once each.
C6_RecomputedRegionAmended ==
  /\ IsPrefix(BackwardStages, ExpectedBackward(self))
  /\ pc = "cycle_done" =>
       /\ BackwardStages = ExpectedBackward(self)
       /\ ForwardStages = << "fc1", "non_linear", "fc2" >>

C6_Witness ==
  /\ pc = "cycle_done"
  /\ self.checkpoint_mlp
  /\ self.recompute_non_linear_layer_in_mlp
  /\ BackwardStages = << "fc1", "non_linear", "fc2", "non_linear" >>

C6_WitnessSingle ==
  /\ pc = "cycle_done"
  /\ ~self.checkpoint_mlp
  /\ self.recompute_non_linear_layer_in_mlp
  /\ BackwardStages = << "non_linear" >>

\* C7: the forward pass of a call runs fc1, nonlinearity, fc2 in that order,
\* each at most once and, when the call completes, exactly once; fc1 consumes
\* the call's input, the nonlinearity consumes the pair fc1 produced, fc2
\* consumes what the nonlinearity produced, and the caller receives what fc2
\* produced.
C7_StageOrder ==
  /\ IsPrefix(ForwardStages, << "fc1", "non_linear", "fc2" >>)
  /\ ForwardCompleted =>
       LET fw == InPass(log, "forward")
       IN  /\ Stages(fw) = << "fc1", "non_linear", "fc2" >>
           /\ fw[2].in = fw[1].out
           /\ fw[3].in = fw[2].out
           /\ ret = fw[3].out
  /\ pc = "done" => log[1].in = locals.hidden_states

C7_Witness ==
  /\ pc = "done"
  /\ self.checkpoint_mlp
  /\ self.recompute_non_linear_layer_in_mlp
  /\ Stages(log) = << "fc1", "non_linear", "fc2" >>
  /\ ret = log[3].out

\* the nonlinearity of the non-fused path, written element by element
BiasAtOrZero(b, i) == IF b = None THEN 0 ELSE b.v[i]

ExpectedUnfused(config, x, b) ==
  LET f  == config.ffn_hidden_size
      fn == config.activation_func
  IN  IF config.gated_linear_unit
        THEN Tensor([i \in 1..f |->
               Act(fn, x.v[i] + BiasAtOrZero(b, i))
                 * (x.v[f + i] + BiasAtOrZero(b, f + i))])
        ELSE Tensor([i \in 1..f |-> Act(fn, x.v[i] + BiasAtOrZero(b, i))])

\* C8: on the non-fused path the nonlinearity yields, element by element,
\* act(x + b) and, gated, act(x[i] + b[i]) * (x[f+i] + b[f+i]), with b taken as
\* absent (nothing added) exactly when add_bias_linear is false; the non-fused
\* path never raises.
C8_BiasBeforeActivation ==
  /\ \A i \in 1..Len(log) :
       (log[i].stage = "non_linear" /\ log[i].via = "unfused") =>
          /\ (log[i].in.items[2] = None) <=> ~self.config.add_bias_linear
          /\ log[i].out = ExpectedUnfused(self.config, log[i].in.items[1],
                                          log[i].in.items[2])
  /\ ~self.config.bias_gelu_fusion => pc # "raised"

C8_Witness ==
  /\ pc = "done"
  /\ log[2].via = "unfused"
  /\ self.config.gated_linear_unit
  /\ self.config.add_bias_linear
  /\ log[2].in.items[2] # None
  /\ log[2].out # Elementwise(self.config.activation_func,
                              Tensor(SubSeq(log[2].in.items[1].v, 1,
                                            self.config.ffn_hidden_size)))

C8_WitnessNoBias ==
  /\ pc = "done"
  /\ log[2].via = "unfused"
  /\ log[2].in.items[2] = None

\* C9: no step of a call, completing or failing, and no backward step changes
\* the instance; it stays what construction made of its configuration.
C9_InstanceReadOnly == [][self' = self]_vars

C9_InstanceAsConstructed == self = MLP(self.config)

C9_Witness ==
  /\ pc = "cycle_done"
  /\ self.checkpoint_mlp
  /\ self = MLP(self.config)

C9_WitnessFailed ==
  /\ pc = "raised"
  /\ self = MLP(self.config)

\* C10: with gated_linear_unit and bias_gelu_fusion both on, a call never gets
\* past the nonlinearity and never runs the fused kernel; it ends in an
\* AssertionError, raised by the activation check (line 79) when biases are
\* enabled, whatever activation is configured, gelu included.
C10_GatedNeverFused ==
  /\ (self.config.gated_linear_unit /\ self.config.bias_gelu_fusion) =>
       /\ self.activation_func # F_gelu
       /\ pc \in {"idle", "forward", "fc1", "non_linear", "raised"}
       /\ pc = "raised" =>
            /\ ret.kind = "AssertionError"
            /\ self.config.add_bias_linear => ret.at = "line79"
  /\ \A i \in 1..Len(log) :
       log[i].via = "fused" => ~self.config.gated_linear_unit

C10_Witness ==
  /\ pc = "raised"
  /\ self.config.gated_linear_unit
  /\ self.config.bias_gelu_fusion
  /\ self.config.add_bias_linear
  /\ self.config.activation_func = "gelu"
  /\ ret = Raised("AssertionError", "line79")

====
